---- MODULE Spec2Model ----
(***************************************************************************)
(* Model of src/python/api/utils.py: the task-name cache (a TTLCache),      *)
(* get_task_name, fetch_spawned_tasks, fetch_task_status and                *)
(* to_sdk_error_response.                                                   *)
(*                                                                          *)
(* A coroutine is a process whose steps are the stretches of code between   *)
(* two awaits: each action below is one such stretch, taken atomically.     *)
(* The clock advances only between steps.                                   *)
(*                                                                          *)
(* Strings are TLA+ strings, except where the code takes a string apart:    *)
(* a slug is kept as the sequence of its "/"-separated segments (what       *)
(* slug.split("/") returns, a bijection), and an error message and the      *)
(* text built from it are sequences of characters.                          *)
(***************************************************************************)
EXTENDS Integers, Sequences, FiniteSets, TLC

---------------------------------------------------------------------------
(* Bounds of the model *)

\* the clock advances at most MaxTicks times, by TickLen each time
MaxTicks == 2
\* the remote platform returns at most MaxChildren run records
MaxChildren == 2
\* an error message has at most MaxMsgLen characters
MaxMsgLen == 3

---------------------------------------------------------------------------
(* Program constants and the value sets the inputs are drawn from *)

\* TTLCache(maxsize=1000, ttl=3600)
ttl == 3600
\* half an expiry window: a store at t is live at t + TickLen, expired at t + 2*TickLen
TickLen == ttl \div 2

\* the callers: each request runs its coroutine on an event loop of its own
\* (run_async), the cache is shared by all of them
Procs == {"a", "b"}
\* the one caller of the sequential get_task_name scenario
Resolvers == {"a"}

\* the root run every status request asks for
RootId == "r"
TaskIds == {"t1", "t2"}
\* st.get("taskId") of a record without one
NoTaskId == ""

\* the raw run records of GET /task-runs the lists are built from: the root
\* itself, two children of one task definition, a child of another one and a
\* child without a taskId
RunRecords ==
    {[id |-> RootId, taskId |-> "t1"],
     [id |-> "c1", taskId |-> "t1"],
     [id |-> "c2", taskId |-> "t1"],
     [id |-> "c2", taskId |-> "t2"],
     [id |-> "c1", taskId |-> NoTaskId]}

RECURSIVE SeqsUpTo(_, _)
SeqsUpTo(S, n) ==
    IF n = 0 THEN {<< >>}
    ELSE LET shorter == SeqsUpTo(S, n - 1)
         IN  shorter \cup {Append(s, x) : s \in {q \in shorter : Len(q) = n - 1}, x \in S}

\* the child-run lists the remote platform may hold for RootId
ChildLists == SeqsUpTo(RunRecords, MaxChildren)

\* the root run as workflows.get_task_run returns it
RootRuns == {[status |-> "running", retries |-> 0],
             [status |-> "completed", retries |-> 1]}

\* task-definition metadata of GET /tasks/{id}: name and slug are optional;
\* slug is held as slug.split("/")
NameVals == {"", "Foo"}
SlugVals == {<<"bar">>, <<"org", "bar-baz">>, <<"org", "">>}
NoMeta == [has_name |-> FALSE, name |-> "", has_slug |-> FALSE, slug |-> <<"">>]
Metas ==
    {[has_name |-> hn, name |-> IF hn THEN n ELSE "",
      has_slug |-> hs, slug |-> IF hs THEN s ELSE <<"">>] :
        hn \in BOOLEAN, n \in NameVals, hs \in BOOLEAN, s \in SlugVals}
\* the metadata the aggregation scenario draws from: {name}, {slug}, {}
AggMetas ==
    {[NoMeta EXCEPT !.has_name = TRUE, !.name = "Foo"],
     [NoMeta EXCEPT !.has_slug = TRUE, !.slug = <<"org", "bar-baz">>],
     NoMeta}

\* exception classes: render_sdk's ClientError and ServerError derive from
\* RenderError, which derives from Exception, as does ValueError
ErrorClasses == {"ClientError", "ServerError", "RenderError", "ValueError", "Exception"}
Parent(c) ==
    CASE c = "ClientError" -> "RenderError"
      [] c = "ServerError" -> "RenderError"
      [] c = "RenderError" -> "Exception"
      [] c = "ValueError" -> "Exception"
      [] OTHER -> "Exception"
isinstance(c, k) ==
    \/ c = k
    \/ Parent(c) = k
    \/ Parent(Parent(c)) = k

MsgChars == {"x", ":"}
Messages == SeqsUpTo(MsgChars, MaxMsgLen)
Errors == [class : ErrorClasses, msg : Messages]
\* the errors workflows.get_task_run raises in the aggregation scenario
RootErrors == {[class |-> "ClientError", msg |-> <<"x">>],
               [class |-> "ServerError", msg |-> <<"x">>]}

---------------------------------------------------------------------------
VARIABLES
    now,              \* the cache's timer
    task_name_cache,  \* _task_name_cache: task definition id -> entry
    api_key,          \* whether RENDER_API_KEY is set
    task_run,         \* the remote platform's root run
    task_runs,        \* the remote platform's run records for rootTaskRunId = RootId
    pc,               \* where each caller is
    response,         \* what fetch_task_status returned to each caller
    raised,           \* the exception fetch_task_status raised to each caller
    pending,          \* the rest of "for tid in unique_task_ids"
    cur,              \* the task definition id whose lookup is in flight
    outcome,          \* how the child-run-list fetch of this request ended
    child_requests,   \* GET /task-runs requests issued in this request
    lookups,          \* GET /tasks/{id} requests issued in this call, per id
    cache_writes,     \* cache stores made in this call
    root_error,       \* the exception line 143 raised in this request
    failed_ids,       \* the ids whose lookup failed in this request
    ret,              \* what get_task_name returned to a direct caller
    hist,             \* per id: the first get_task_name call for it
    error,            \* the exception handed to to_sdk_error_response
    mapped            \* what to_sdk_error_response returned

remoteVars == <<api_key, task_run, task_runs>>
aggVars == <<response, raised, pending, outcome, child_requests>>
nameVars == <<ret, hist>>
errVars == <<error, mapped>>
noteVars == <<root_error, failed_ids>>
vars == <<now, task_name_cache, api_key, task_run, task_runs, pc, response, raised,
          pending, cur, outcome, child_requests, lookups, cache_writes, root_error,
          failed_ids, ret, hist, error, mapped>>

---------------------------------------------------------------------------
(* The TTLCache: an entry is live while the timer is below its expiry, and a
   store first drops the entries that have expired.  maxsize=1000 is far above
   the number of ids of the model, so no entry is evicted for capacity. *)

NoEntry == [present |-> FALSE, name |-> "", expires |-> 0]

\* a membership test that forgets the expiry: a plain dictionary's "in"
CacheContainsMutantNoExpiry(cache, key, t) ==
    /\ key \in DOMAIN cache
    /\ cache[key].present

\* key in cache: the entry is there and the timer has not reached its expiry
CacheContains(cache, key, t) ==
    /\ key \in DOMAIN cache
    /\ cache[key].present
    /\ t < cache[key].expires

\* cache.get(key, default)
CacheGet(cache, key, default, t) ==
    IF CacheContains(cache, key, t) THEN cache[key].name ELSE default

\* a store that rebuilds the cache from the written key alone, losing the others
CacheSetMutantClobber(cache, key, value, t) ==
    [k \in DOMAIN cache |->
        IF k = key THEN [present |-> TRUE, name |-> value, expires |-> t + ttl]
        ELSE NoEntry]

\* cache[key] = value: expired entries are dropped, the entry gets a fresh expiry
CacheSet(cache, key, value, t) ==
    [k \in DOMAIN cache |->
        IF k = key THEN [present |-> TRUE, name |-> value, expires |-> t + ttl]
        ELSE IF cache[k].present /\ ~(t < cache[k].expires) THEN NoEntry
        ELSE cache[k]]

---------------------------------------------------------------------------
(* Pure functions *)

\* a name computation without the slug branch of lines 69-70
TaskNameMutantNoSlug(data, task_def_id) ==
    LET name == IF data.has_name THEN data.name ELSE ""
    IN  IF name # "" THEN name ELSE task_def_id

\* get_task_name, lines 67-70: the name computed from the fetched metadata
TaskName(data, task_def_id) ==
    LET name == IF data.has_name THEN data.name ELSE ""
        slug == IF data.has_slug THEN data.slug ELSE <<"">>
        task_name == IF name # "" THEN name ELSE task_def_id
    IN  IF name = "" /\ Len(slug) > 1 THEN slug[Len(slug)] ELSE task_name

ClientPrefix == <<"C","l","i","e","n","t"," ","e","r","r","o","r",":"," ">>
RenderPrefix == <<"R","e","n","d","e","r"," ","A","P","I"," ","e","r","r","o","r",":"," ">>

\* the mapping with its two isinstance tests in the other order
to_sdk_error_response_MutantOrder(e) ==
    IF isinstance(e.class, "RenderError")
        THEN [status |-> 500, message |-> RenderPrefix \o e.msg]
    ELSE IF isinstance(e.class, "ClientError")
        THEN [status |-> 400, message |-> ClientPrefix \o e.msg]
    ELSE [status |-> 500, message |-> e.msg]

\* lines 46-52
to_sdk_error_response(e) ==
    IF isinstance(e.class, "ClientError")
        THEN [status |-> 400, message |-> ClientPrefix \o e.msg]
    ELSE IF isinstance(e.class, "RenderError")
        THEN [status |-> 500, message |-> RenderPrefix \o e.msg]
    ELSE [status |-> 500, message |-> e.msg]

---------------------------------------------------------------------------
(* fetch_spawned_tasks: the code between its awaits *)

\* lines 103-106
unique_task_ids(data, task_run_id) ==
    {data[i].taskId : i \in {j \in 1..Len(data) :
        data[j].id # task_run_id /\ data[j].taskId # NoTaskId}}

\* the orders in which "for tid in unique_task_ids" may visit a set
Orders(S) ==
    {s \in [1..Cardinality(S) -> S] : {s[i] : i \in 1..Cardinality(S)} = S}

\* lines 108-109: the loop runs on, without awaiting, over the ids in the cache
RECURSIVE SkipCached(_, _, _)
SkipCached(pend, cache, t) ==
    IF pend = << >> THEN << >>
    ELSE IF CacheContains(cache, Head(pend), t) THEN SkipCached(Tail(pend), cache, t)
    ELSE pend

\* the summaries without the test of line 114: the root is listed too
RECURSIVE RelatedTasksMutantKeepRoot(_, _, _, _, _)
RelatedTasksMutantKeepRoot(data, task_run_id, cache, t, acc) ==
    IF data = << >> THEN acc
    ELSE LET st == Head(data)
         IN  RelatedTasksMutantKeepRoot(Tail(data), task_run_id, cache, t,
                 Append(acc, [id |-> st.id,
                              task_id |-> CacheGet(cache, st.taskId, st.taskId, t)]))

\* the summaries with the raw taskId for a name, the cache not consulted
RECURSIVE RelatedTasksMutantRaw(_, _, _, _, _)
RelatedTasksMutantRaw(data, task_run_id, cache, t, acc) ==
    IF data = << >> THEN acc
    ELSE LET st == Head(data)
         IN  IF st.id = task_run_id
                 THEN RelatedTasksMutantRaw(Tail(data), task_run_id, cache, t, acc)
             ELSE RelatedTasksMutantRaw(Tail(data), task_run_id, cache, t,
                      Append(acc, [id |-> st.id, task_id |-> st.taskId]))

\* lines 112-128: the summaries, appended in the order of data
RECURSIVE RelatedTasks(_, _, _, _, _)
RelatedTasks(data, task_run_id, cache, t, acc) ==
    IF data = << >> THEN acc
    ELSE LET st == Head(data)
         IN  IF st.id = task_run_id
                 THEN RelatedTasks(Tail(data), task_run_id, cache, t, acc)
             ELSE RelatedTasks(Tail(data), task_run_id, cache, t,
                      Append(acc, [id |-> st.id,
                                   task_id |-> CacheGet(cache, st.taskId, st.taskId, t)]))

NoResponse ==
    [present |-> FALSE, id |-> "", status |-> "", retries |-> 0,
     tasks |-> << >>, has_results |-> FALSE]
NoError == [class |-> "", msg |-> << >>]
NoLookups == [k \in TaskIds |-> 0]

\* fetch_task_status, lines 145-156: the report, once fetch_spawned_tasks returned
Finish(p, tasks, how) ==
    /\ response' = [response EXCEPT ![p] =
           [present |-> TRUE, id |-> RootId, status |-> task_run.status,
            retries |-> task_run.retries, tasks |-> tasks,
            has_results |-> (task_run.status = "completed")]]
    /\ outcome' = [outcome EXCEPT ![p] = how]
    /\ pc' = [pc EXCEPT ![p] = "done"]
    /\ pending' = [pending EXCEPT ![p] = << >>]
    /\ cur' = [cur EXCEPT ![p] = ""]
    /\ UNCHANGED lookups

\* lines 108-131, from the loop's position pend and the cache as it is now: either
\* the next uncached id is requested (get_task_name, lines 57-65) or the list is built
Prefetch(p, pend, cache) ==
    LET rest == SkipCached(pend, cache, now)
    IN  IF rest = << >>
            THEN Finish(p, RelatedTasks(task_runs, RootId, cache, now, << >>), "ok")
        ELSE /\ pc' = [pc EXCEPT ![p] = "name"]
             /\ cur' = [cur EXCEPT ![p] = Head(rest)]
             /\ pending' = [pending EXCEPT ![p] = Tail(rest)]
             /\ lookups' = [lookups EXCEPT ![p][Head(rest)] = @ + 1]
             /\ outcome' = [outcome EXCEPT ![p] = "ok"]
             /\ UNCHANGED response

---------------------------------------------------------------------------
(* A status request: fetch_task_status *)

\* line 143 is awaited
StartStatus(p) ==
    /\ pc[p] = "idle"
    /\ pc' = [pc EXCEPT ![p] = "root"]
    /\ UNCHANGED <<now, task_name_cache, remoteVars, aggVars, cur, lookups,
                   cache_writes, nameVars, errVars, noteVars>>

\* a root fetch whose failure is swallowed: the child runs are fetched all the same
RootFailMutantSwallow(p, e) ==
    /\ pc[p] = "root"
    /\ root_error' = [root_error EXCEPT ![p] = e]
    /\ pc' = [pc EXCEPT ![p] = "list"]
    /\ child_requests' = [child_requests EXCEPT ![p] = @ + 1]
    /\ UNCHANGED <<now, task_name_cache, remoteVars, response, raised, pending,
                   outcome, cur, lookups, cache_writes, nameVars, errVars, failed_ids>>

\* line 143 raises: the error leaves fetch_task_status
RootFail(p, e) ==
    /\ pc[p] = "root"
    /\ root_error' = [root_error EXCEPT ![p] = e]
    /\ pc' = [pc EXCEPT ![p] = "failed"]
    /\ raised' = [raised EXCEPT ![p] = e]
    /\ UNCHANGED <<now, task_name_cache, remoteVars, response, pending, outcome,
                   child_requests, cur, lookups, cache_writes, nameVars, errVars, failed_ids>>

\* line 143 returns; fetch_spawned_tasks runs to its first await (lines 81-96)
RootOk(p) ==
    /\ pc[p] = "root"
    /\ IF ~api_key
           THEN /\ Finish(p, << >>, "nokey")
                /\ UNCHANGED child_requests
       ELSE /\ pc' = [pc EXCEPT ![p] = "list"]
            /\ child_requests' = [child_requests EXCEPT ![p] = @ + 1]
            /\ UNCHANGED <<response, outcome, pending, cur, lookups>>
    /\ UNCHANGED <<now, task_name_cache, remoteVars, raised, cache_writes,
                   nameVars, errVars, noteVars>>

\* a child-run-list failure that is not caught and leaves fetch_task_status
ListFailMutantRaise(p) ==
    /\ pc[p] = "list"
    /\ pc' = [pc EXCEPT ![p] = "failed"]
    /\ outcome' = [outcome EXCEPT ![p] = "fail"]
    /\ raised' = [raised EXCEPT ![p] = [class |-> "Exception", msg |-> <<"x">>]]
    /\ UNCHANGED <<now, task_name_cache, remoteVars, response, pending,
                   child_requests, cur, lookups, cache_writes, nameVars, errVars, noteVars>>

\* lines 86-98 raise (transport error, timeout, non-2xx): lines 133-138
ListFail(p) ==
    /\ pc[p] = "list"
    /\ Finish(p, << >>, "fail")
    /\ UNCHANGED <<now, task_name_cache, remoteVars, raised, child_requests,
                   cache_writes, nameVars, errVars, noteVars>>

\* the child-run list arrives; lines 98-110 up to the first lookup, or to the end
ListOk(p, order) ==
    /\ pc[p] = "list"
    /\ order \in Orders(unique_task_ids(task_runs, RootId))
    /\ Prefetch(p, order, task_name_cache)
    /\ UNCHANGED <<now, task_name_cache, remoteVars, raised, child_requests,
                   cache_writes, nameVars, errVars, noteVars>>

\* get_task_name, lines 66-73, then the loop goes on
NameOk(p, data) ==
    /\ pc[p] = "name"
    /\ LET stored == CacheSet(task_name_cache, cur[p], TaskName(data, cur[p]), now)
       IN  /\ task_name_cache' = stored
           /\ Prefetch(p, pending[p], stored)
    /\ cache_writes' = [cache_writes EXCEPT ![p] = @ + 1]
    /\ UNCHANGED <<now, remoteVars, raised, child_requests, nameVars, errVars, noteVars>>

\* a lookup failure that is not caught and leaves fetch_task_status
NameFailMutantRaise(p) ==
    /\ pc[p] = "name"
    /\ failed_ids' = [failed_ids EXCEPT ![p] = @ \cup {cur[p]}]
    /\ pc' = [pc EXCEPT ![p] = "failed"]
    /\ raised' = [raised EXCEPT ![p] = [class |-> "Exception", msg |-> <<"x">>]]
    /\ UNCHANGED <<now, task_name_cache, remoteVars, response, pending, outcome, child_requests, cur, lookups,
                   cache_writes, nameVars, errVars, root_error>>

\* get_task_name, lines 74-76: the lookup failed, nothing is stored
NameFail(p) ==
    /\ pc[p] = "name"
    /\ failed_ids' = [failed_ids EXCEPT ![p] = @ \cup {cur[p]}]
    /\ Prefetch(p, pending[p], task_name_cache)
    /\ UNCHANGED <<now, task_name_cache, remoteVars, raised, child_requests,
                   cache_writes, nameVars, errVars, root_error>>

\* the caller has its report or its error; the next request starts afresh
Return(p) ==
    /\ pc[p] \in {"done", "failed"}
    /\ pc' = [pc EXCEPT ![p] = "idle"]
    /\ response' = [response EXCEPT ![p] = NoResponse]
    /\ raised' = [raised EXCEPT ![p] = NoError]
    /\ outcome' = [outcome EXCEPT ![p] = "none"]
    /\ child_requests' = [child_requests EXCEPT ![p] = 0]
    /\ lookups' = [lookups EXCEPT ![p] = NoLookups]
    /\ cache_writes' = [cache_writes EXCEPT ![p] = 0]
    /\ root_error' = [root_error EXCEPT ![p] = NoError]
    /\ failed_ids' = [failed_ids EXCEPT ![p] = {}]
    /\ UNCHANGED <<now, task_name_cache, remoteVars, pending, cur, nameVars, errVars>>

\* the cache's timer moves on
Tick ==
    /\ now + TickLen <= MaxTicks * TickLen
    /\ now' = now + TickLen
    /\ UNCHANGED <<task_name_cache, remoteVars, pc, aggVars, cur, lookups,
                   cache_writes, nameVars, errVars, noteVars>>

---------------------------------------------------------------------------
(* The aggregation scenario: concurrent status requests *)

NoRet ==
    [present |-> FALSE, name |-> "", hit |-> FALSE, failed |-> FALSE,
     expires |-> 0, at |-> 0, data |-> NoMeta]
NoHist == [n |-> 0, at |-> 0, ok |-> FALSE, in_window |-> FALSE]
NoMapped == [status |-> 0, message |-> << >>]

InitProcs ==
    /\ pc = [p \in Procs |-> "idle"]
    /\ response = [p \in Procs |-> NoResponse]
    /\ raised = [p \in Procs |-> NoError]
    /\ pending = [p \in Procs |-> << >>]
    /\ cur = [p \in Procs |-> ""]
    /\ outcome = [p \in Procs |-> "none"]
    /\ child_requests = [p \in Procs |-> 0]
    /\ lookups = [p \in Procs |-> NoLookups]
    /\ cache_writes = [p \in Procs |-> 0]
    /\ root_error = [p \in Procs |-> NoError]
    /\ failed_ids = [p \in Procs |-> {}]
    /\ ret = [p \in Procs |-> NoRet]
    /\ hist = [k \in TaskIds |-> NoHist]

\* every order "for tid in unique_task_ids" may take, over every set of ids
AllOrders == UNION {Orders(S) : S \in SUBSET TaskIds}

\* the child-run lists of the concurrent scenario: two children of one task
\* definition, two children of two definitions, the root echoed before a child
ConcLists ==
    {<<[id |-> "c1", taskId |-> "t1"], [id |-> "c2", taskId |-> "t1"]>>,
     <<[id |-> "c1", taskId |-> "t1"], [id |-> "c2", taskId |-> "t2"]>>,
     <<[id |-> RootId, taskId |-> "t1"], [id |-> "c2", taskId |-> "t2"]>>}

Init ==
    /\ now = 0
    /\ task_name_cache = [k \in TaskIds |-> NoEntry]
    /\ api_key = TRUE
    /\ task_run \in RootRuns
    /\ task_runs \in ConcLists
    /\ InitProcs
    /\ error = NoError
    /\ mapped = NoMapped

Next ==
    \/ \E p \in Procs : StartStatus(p)
    \/ \E p \in Procs, e \in RootErrors : RootFail(p, e)
    \/ \E p \in Procs : RootOk(p)
    \/ \E p \in Procs : ListFail(p)
    \/ \E p \in Procs, order \in AllOrders : ListOk(p, order)
    \/ \E p \in Procs, data \in AggMetas : NameOk(p, data)
    \/ \E p \in Procs : NameFail(p)
    \/ \E p \in Procs : Return(p)
    \/ Tick

\* status requests in flight together
Spec == Init /\ [][Next]_vars

---------------------------------------------------------------------------
(* The sequential scenario: one status request after another, over every
   child-run list up to MaxChildren records, with and without an API key *)

InitSeq ==
    /\ now = 0
    /\ task_name_cache = [k \in TaskIds |-> NoEntry]
    /\ api_key \in BOOLEAN
    /\ task_run \in RootRuns
    /\ task_runs \in ChildLists
    /\ InitProcs
    /\ error = NoError
    /\ mapped = NoMapped

NextSeq ==
    \/ \E p \in Resolvers : StartStatus(p)
    \/ \E p \in Resolvers, e \in RootErrors : RootFail(p, e)
    \/ \E p \in Resolvers : RootOk(p)
    \/ \E p \in Resolvers : ListFail(p)
    \/ \E p \in Resolvers, order \in AllOrders : ListOk(p, order)
    \/ \E p \in Resolvers, data \in AggMetas : NameOk(p, data)
    \/ \E p \in Resolvers : NameFail(p)
    \/ \E p \in Resolvers : Return(p)
    \/ Tick

SpecSeq == InitSeq /\ [][NextSeq]_vars

---------------------------------------------------------------------------
(* The name-resolution scenario: get_task_name called directly, one call
   after another, over every metadata record *)

\* the bookkeeping of a call for id: which call for id it is and, for the
\* second, whether it starts less than ttl after the first one returned
Called(h, t) ==
    IF h.n = 0 THEN [h EXCEPT !.n = 1]
    ELSE IF h.n = 1 THEN [h EXCEPT !.n = 2, !.in_window = (t < h.at + ttl)]
    ELSE [h EXCEPT !.n = 3]
Returned(h, t, ok) == IF h.n = 1 THEN [h EXCEPT !.at = t, !.ok = ok] ELSE h

\* a get_task_name without the membership test of lines 57-58
get_task_name_MutantNoCheck(p, id) ==
    /\ pc[p] = "idle"
    /\ cur' = [cur EXCEPT ![p] = id]
    /\ pc' = [pc EXCEPT ![p] = "fetch"]
    /\ lookups' = [lookups EXCEPT ![p][id] = @ + 1]
    /\ hist' = [hist EXCEPT ![id] = Called(@, now)]
    /\ UNCHANGED <<now, task_name_cache, remoteVars, aggVars, cache_writes, ret, errVars, noteVars>>

\* get_task_name, lines 57-65: a live entry is returned, else the lookup is issued
get_task_name(p, id) ==
    /\ pc[p] = "idle"
    /\ cur' = [cur EXCEPT ![p] = id]
    /\ IF CacheContains(task_name_cache, id, now)
           THEN /\ ret' = [ret EXCEPT ![p] =
                       [present |-> TRUE, name |-> task_name_cache[id].name,
                        hit |-> TRUE, failed |-> FALSE,
                        expires |-> task_name_cache[id].expires,
                        at |-> now, data |-> NoMeta]]
                /\ pc' = [pc EXCEPT ![p] = "returned"]
                /\ hist' = [hist EXCEPT ![id] = Returned(Called(@, now), now, TRUE)]
                /\ UNCHANGED lookups
       ELSE /\ pc' = [pc EXCEPT ![p] = "fetch"]
            /\ lookups' = [lookups EXCEPT ![p][id] = @ + 1]
            /\ hist' = [hist EXCEPT ![id] = Called(@, now)]
            /\ UNCHANGED ret
    /\ UNCHANGED <<now, task_name_cache, remoteVars, aggVars, cache_writes, errVars, noteVars>>

\* lines 66-73: the metadata arrived
FetchOk(p, data) ==
    /\ pc[p] = "fetch"
    /\ task_name_cache' = CacheSet(task_name_cache, cur[p], TaskName(data, cur[p]), now)
    /\ cache_writes' = [cache_writes EXCEPT ![p] = @ + 1]
    /\ ret' = [ret EXCEPT ![p] =
           [present |-> TRUE, name |-> TaskName(data, cur[p]), hit |-> FALSE,
            failed |-> FALSE, expires |-> 0, at |-> now, data |-> data]]
    /\ pc' = [pc EXCEPT ![p] = "returned"]
    /\ hist' = [hist EXCEPT ![cur[p]] = Returned(@, now, TRUE)]
    /\ UNCHANGED <<now, remoteVars, aggVars, cur, lookups, errVars, noteVars>>

\* lines 74-76: the lookup failed
FetchFail(p) ==
    /\ pc[p] = "fetch"
    /\ ret' = [ret EXCEPT ![p] =
           [present |-> TRUE, name |-> cur[p], hit |-> FALSE, failed |-> TRUE,
            expires |-> 0, at |-> now, data |-> NoMeta]]
    /\ pc' = [pc EXCEPT ![p] = "returned"]
    /\ hist' = [hist EXCEPT ![cur[p]] = Returned(@, now, FALSE)]
    /\ UNCHANGED <<now, task_name_cache, remoteVars, aggVars, cur, lookups,
                   cache_writes, errVars, noteVars>>

\* the caller has the name; its next call starts afresh
NameReturn(p) ==
    /\ pc[p] = "returned"
    /\ pc' = [pc EXCEPT ![p] = "idle"]
    /\ ret' = [ret EXCEPT ![p] = NoRet]
    /\ cur' = [cur EXCEPT ![p] = ""]
    /\ lookups' = [lookups EXCEPT ![p] = NoLookups]
    /\ cache_writes' = [cache_writes EXCEPT ![p] = 0]
    /\ UNCHANGED <<now, task_name_cache, remoteVars, aggVars, hist, errVars, noteVars>>

InitName ==
    /\ now = 0
    /\ task_name_cache = [k \in TaskIds |-> NoEntry]
    /\ api_key = TRUE
    /\ task_run = [status |-> "running", retries |-> 0]
    /\ task_runs = << >>
    /\ InitProcs
    /\ error = NoError
    /\ mapped = NoMapped

NextName ==
    \/ \E p \in Resolvers, id \in TaskIds : get_task_name(p, id)
    \/ \E p \in Resolvers, data \in Metas : FetchOk(p, data)
    \/ \E p \in Resolvers : FetchFail(p)
    \/ \E p \in Resolvers : NameReturn(p)
    \/ Tick

SpecName == InitName /\ [][NextName]_vars

---------------------------------------------------------------------------
(* The error-mapping scenario: to_sdk_error_response applied to an exception *)

MapError ==
    /\ mapped = NoMapped
    /\ mapped' = to_sdk_error_response(error)
    /\ UNCHANGED <<now, task_name_cache, remoteVars, pc, aggVars, cur, lookups,
                   cache_writes, nameVars, error, noteVars>>

InitErr ==
    /\ now = 0
    /\ task_name_cache = [k \in TaskIds |-> NoEntry]
    /\ api_key = TRUE
    /\ task_run = [status |-> "running", retries |-> 0]
    /\ task_runs = << >>
    /\ InitProcs
    /\ error \in Errors
    /\ mapped = NoMapped

NextErr == MapError

SpecErr == InitErr /\ [][NextErr]_vars

---------------------------------------------------------------------------
(* Properties *)

\* the records of task_runs that are children: those whose id is not the root's
IsChild(st) == st.id # RootId
Children == SelectSeq(task_runs, IsChild)
\* the task definition ids two or more children share
SharedIds ==
    {id \in TaskIds : \E i, j \in 1..Len(Children) :
        i # j /\ Children[i].taskId = id /\ Children[j].taskId = id}
\* p's step builds the child list of a report
Builds(p) == pc[p] # "done" /\ pc'[p] = "done" /\ outcome'[p] = "ok"
IsPrefix(pre, str) == Len(str) >= Len(pre) /\ SubSeq(str, 1, Len(pre)) = pre

\* the names a lookup of id can resolve to
ResolvedNames(id) == {TaskName(data, id) : data \in AggMetas}

C3_ChildListFailureSwallowed ==
    \A p \in Procs : outcome[p] = "fail" =>
        /\ pc[p] = "done"
        /\ raised[p] = NoError
        /\ response[p].present
        /\ response[p].tasks = << >>
        /\ response[p].id = RootId
        /\ response[p].status = task_run.status
        /\ response[p].retries = task_run.retries

\* C3's case: the root run, completed after one retry, was fetched, the one
\* child-run-list request failed and the report came back.
C3_Witness ==
    \E p \in Procs :
        /\ outcome[p] = "fail" /\ pc[p] = "done"
        /\ child_requests[p] = 1
        /\ response[p].status = "completed" /\ response[p].retries = 1

\* C4: when the root run fetch fails, fetch_task_status fails with that error,
\* returns no report, and has issued no child-run-list request, no name lookup
\* and no cache store.
C4_RootFailurePropagates ==
    \A p \in Procs : root_error[p] # NoError =>
        /\ pc[p] = "failed"
        /\ raised[p] = root_error[p]
        /\ ~response[p].present
        /\ child_requests[p] = 0
        /\ lookups[p] = NoLookups
        /\ cache_writes[p] = 0

\* C4's case: p's root fetch failed with a client error and p's request
\* failed, while another request went through and stored a name.
C4_Witness ==
    \E p, q \in Procs :
        /\ pc[p] = "failed" /\ raised[p].class = "ClientError"
        /\ pc[q] = "done" /\ cache_writes[q] > 0

\* C5 as stated: a failed lookup never fails the aggregation, whose child list
\* shows the raw id as the name of every child of that id.
C5_RawNameAsStated ==
    \A p \in Procs : failed_ids[p] # {} =>
        /\ pc[p] # "failed"
        /\ (pc[p] = "done" /\ outcome[p] = "ok") =>
               \A i \in 1..Len(Children) : Children[i].taskId \in failed_ids[p] =>
                   /\ i <= Len(response[p].tasks)
                   /\ response[p].tasks[i].task_id = Children[i].taskId

\* C5, amended: a failed lookup stores nothing and never fails the aggregation;
\* its child list has a summary for every child, and a child of the id whose
\* lookup failed shows the raw id, unless the cache holds a live name for it
\* when the list is built (stored by another caller), which it then shows.
C5_LookupFailureAbsorbed ==
    [][\A p \in Procs :
          /\ failed_ids'[p] # failed_ids[p] /\ failed_ids'[p] # {} =>
                /\ pc'[p] # "failed"
                /\ raised'[p] = NoError
                /\ task_name_cache' = task_name_cache
          /\ (Builds(p) /\ failed_ids'[p] # {}) =>
                /\ Len(response'[p].tasks) = Len(Children)
                /\ \A i \in 1..Len(Children) :
                       Children[i].taskId \in failed_ids'[p] =>
                           \/ response'[p].tasks[i].task_id = Children[i].taskId
                           \/ /\ CacheContains(task_name_cache', Children[i].taskId, now')
                              /\ response'[p].tasks[i].task_id =
                                     task_name_cache'[Children[i].taskId].name]_vars

\* C5's case: a lookup failed, the aggregation returned its list and the child
\* of that id shows the raw id.
C5_Witness ==
    \E p \in Procs, i \in 1..Len(Children) :
        /\ pc[p] = "done" /\ outcome[p] = "ok"
        /\ Children[i].taskId \in failed_ids[p]
        /\ response[p].tasks[i].task_id = Children[i].taskId

\* C6: when the child-run-list fetch succeeds the report's child list holds, in
\* the platform's order, one summary per record whose id is not the root's and
\* none for a record whose id is the root's.
C6_ChildrenInOrderWithoutRoot ==
    \A p \in Procs : (pc[p] = "done" /\ outcome[p] = "ok") =>
        /\ Len(response[p].tasks) = Len(Children)
        /\ \A i \in 1..Len(Children) : response[p].tasks[i].id = Children[i].id
        /\ \A i \in 1..Len(response[p].tasks) : response[p].tasks[i].id # RootId

\* C6's case: the platform echoed the root among the records and a child
\* after it; the list holds the child alone.
C6_Witness ==
    \E p \in Procs :
        /\ pc[p] = "done" /\ outcome[p] = "ok"
        /\ Len(task_runs) = 2 /\ task_runs[1].id = RootId
        /\ Len(response[p].tasks) = 1 /\ response[p].tasks[1].id = task_runs[2].id

FirstCall(p) == pc[p] = "returned" /\ hist[cur[p]].n = 1
SecondCallInWindow(p) ==
    pc[p] = "returned" /\ hist[cur[p]].n = 2 /\ hist[cur[p]].in_window

\* C2 as stated: the first resolve of an id issues exactly one lookup, a second
\* resolve of it within the expiry window issues none.
C2_SecondResolveAsStated ==
    \A p \in Resolvers :
        /\ FirstCall(p) => lookups[p][cur[p]] = 1
        /\ SecondCallInWindow(p) => lookups[p][cur[p]] = 0

\* C2, amended: the first resolve of an id issues exactly one lookup; a second
\* resolve within the expiry window issues none and returns the cached name
\* when the first lookup succeeded, and issues exactly one again when the
\* first lookup failed, since a failed lookup stores nothing.
C2_SecondResolveHitsCache ==
    \A p \in Resolvers :
        /\ FirstCall(p) => lookups[p][cur[p]] = 1 /\ ~ret[p].hit
        /\ (SecondCallInWindow(p) /\ hist[cur[p]].ok) =>
               /\ lookups[p][cur[p]] = 0
               /\ ret[p].hit
               /\ ret[p].name = task_name_cache[cur[p]].name
        /\ (SecondCallInWindow(p) /\ ~hist[cur[p]].ok) =>
               lookups[p][cur[p]] = 1 /\ ~ret[p].hit

\* C2's case: the second resolve, in the window, after a first one that
\* stored a name; the clock has moved in between.
C2_Witness ==
    \E p \in Resolvers :
        /\ SecondCallInWindow(p) /\ hist[cur[p]].ok
        /\ ret[p].at > hist[cur[p]].at
        /\ ret[p].hit /\ lookups[p][cur[p]] = 0

\* the name field counts as present when it holds a non-empty string
NamePresent(data) == data.has_name /\ data.name # ""

\* C7 as stated: the name if present, else the last path segment of the slug,
\* else the id.
C7_FallbackChainAsStated ==
    \A p \in Resolvers :
        (pc[p] = "returned" /\ ~ret[p].hit /\ ~ret[p].failed) =>
            ret[p].name =
                IF NamePresent(ret[p].data) THEN ret[p].data.name
                ELSE IF ret[p].data.has_slug
                    THEN ret[p].data.slug[Len(ret[p].data.slug)]
                ELSE cur[p]

\* C7, amended: the name if present and not empty, else the last path segment
\* of the slug if the slug contains a "/", else the id; that name is what the
\* cache then holds.
C7_FallbackChain ==
    \A p \in Resolvers :
        (pc[p] = "returned" /\ ~ret[p].hit /\ ~ret[p].failed) =>
            /\ ret[p].name =
                   IF NamePresent(ret[p].data) THEN ret[p].data.name
                   ELSE IF ret[p].data.has_slug /\ Len(ret[p].data.slug) > 1
                       THEN ret[p].data.slug[Len(ret[p].data.slug)]
                   ELSE cur[p]
            /\ task_name_cache[cur[p]].name = ret[p].name

\* C7's case: metadata with a slug "org/bar-baz" and no name gave "bar-baz".
C7_Witness ==
    \E p \in Resolvers :
        /\ pc[p] = "returned" /\ ~ret[p].hit /\ ~ret[p].failed
        /\ ~ret[p].data.has_name
        /\ ret[p].data.slug = <<"org", "bar-baz">>
        /\ ret[p].name = "bar-baz"

RemotePrefix ==
    <<"R","e","m","o","t","e"," ","s","e","r","v","i","c","e"," ","e","r","r","o","r",":"," ">>

\* the three kinds of the mapping
IsClientInput(e) == isinstance(e.class, "ClientError")
IsRemoteService(e) == isinstance(e.class, "RenderError") /\ ~IsClientInput(e)

\* C10 as stated: every exception maps to one of three outcomes: a client
\* error to 4xx and "Client error: ...", a remote-service error to 5xx and
\* "Remote service error: ...", any other to 5xx and its raw message.
C10_ErrorMappingAsStated ==
    mapped # NoMapped =>
        /\ IsClientInput(error) =>
               /\ mapped.status \in 400..499
               /\ IsPrefix(ClientPrefix, mapped.message)
        /\ IsRemoteService(error) =>
               /\ mapped.status \in 500..599
               /\ IsPrefix(RemotePrefix, mapped.message)
        /\ (~IsClientInput(error) /\ ~IsRemoteService(error)) =>
               /\ mapped.status \in 500..599
               /\ mapped.message = error.msg

\* C10, amended: as stated, but the message of a remote-service error begins
\* "Render API error: "; the prefix is followed by the error's message.
C10_ErrorMapping ==
    mapped # NoMapped =>
        /\ IsClientInput(error) =>
               /\ mapped.status \in 400..499
               /\ mapped.message = ClientPrefix \o error.msg
        /\ IsRemoteService(error) =>
               /\ mapped.status \in 500..599
               /\ mapped.message =
                      <<"R","e","n","d","e","r"," ","A","P","I"," ","e","r","r","o","r",":"," ">>
                          \o error.msg
        /\ (~IsClientInput(error) /\ ~IsRemoteService(error)) =>
               /\ mapped.status \in 500..599
               /\ mapped.message = error.msg

\* C10's case: a server error of the SDK with a message of full length was
\* mapped to 500 and "Render API error: " before its message.
C10_Witness ==
    /\ mapped # NoMapped
    /\ error.class = "ServerError" /\ Len(error.msg) = MaxMsgLen
    /\ mapped.status = 500
    /\ IsPrefix(RenderPrefix, mapped.message)
    /\ Len(mapped.message) = Len(RenderPrefix) + MaxMsgLen

====
